---- MODULE Spec2Model ----
(***************************************************************************)
(* A model of py_interface/ns3_util.py: the settings expander              *)
(* (get_settings, get_setting), the CPU probe (get_free_cpu), the process  *)
(* tree reaper (kill_proc_tree), the build/launch driver (build_ns3,       *)
(* check_program_installed, run_single_ns3) and the bulk launch scheduler  *)
(* (run_bulk_ns3).                                                         *)
(*                                                                         *)
(* Python text strings are sequences of one-character strings, so that     *)
(* iterating a text string, formatting and strip('_') are computed the way *)
(* Python computes them.                                                   *)
(***************************************************************************)
EXTENDS Integers, Sequences, FiniteSets, TLC

VARIABLES
    \* ---- get_settings (Settings Expander) ----
    epc,        \* "start" | "done"
    setting_map,\* the ordered map handed to get_settings: sequence of <<key, value>>
    ret,        \* the returned list of (command, filename) pairs
    file_name_format, \* the returned format name
    emap,       \* the caller's map object after the call (popitem consumes it)
    \* ---- kill_proc_tree (Process Tree Reaper) ----
    rpc,        \* position in kill_proc_tree
    parg,       \* what p is: "pid" | "popen" | "handle" (a psutil.Process)
    timeout,    \* "none" | "finite": the caller's timeout for wait_procs
    parent,     \* the process tree: parent[q] is the parent of q, 0 if q is unrelated
    perf,       \* the processes whose name contains "perf"
    alive,      \* alive[q]: process q exists
    ch,         \* [p] + p.children(recursive=True)
    ri,         \* index in ch of the loop variable c
    termCalls,  \* termCalls[q]: SIGTERMs delivered to q (line 75)
    killCalls,  \* killCalls[q]: calls of q.kill() (lines 82 and 87)
    escal,      \* escal[q]: calls of q.kill() made after TimeoutExpired (line 82)
    killed,     \* processes a SIGKILL was delivered to
    timedOut,   \* processes whose c.wait(timeout=10) raised TimeoutExpired
    exitedInTime, \* processes whose c.wait(timeout=10) returned
    vanished,   \* processes that exited on their own, with no SIGKILL delivered
    succ,       \* returned: the processes gone
    err,        \* returned: the processes still alive
    \* ---- run_single_ns3 (Build/Launch Driver) ----
    lpc,        \* position in run_single_ns3
    path,       \* argument: the simulator's root directory
    setting,    \* argument: None or a setting map
    env,        \* argument: None or the caller's dict object, as it is now
    env0,       \* the caller's env as it was when the call was made
    os_environ, \* os.environ of the controlling process
    show_output,\* argument
    profile_ns3,\* argument
    build,      \* argument
    buildExit,  \* exit code of './ns3 build'
    buildFillsPipe, \* './ns3 build' writes more than the stdout pipe holds
    perfInstalled,  \* shutil.which("perf") finds the tool
    execDir,    \* os.listdir of <path>/build/scratch/<pname>, or missing
    buildRuns,  \* number of './ns3 build' processes started
    cmd,        \* the command line assembled so far
    children,   \* the simulator processes spawned by Popen, in order
    lexc,       \* the exception raised to the caller, "" if none
    exitStatus, \* exit status of the controlling process after exit(), -1 if running
    \* ---- run_bulk_ns3 (Bulk Launch Scheduler) and get_free_cpu ----
    bpc,        \* position in run_bulk_ns3
    commons,    \* argument: the common setting map
    settings,   \* argument: the list of per-sweep setting maps
    common_setting_param, \* get_setting(copy(commons))
    params,     \* the master list of (args, fn) pairs
    fname_format, \* the list of format names, one per setting map
    ji,         \* index in params of the job being scheduled
    cpus,       \* the snapshot returned by get_free_cpu()
    load,       \* the machine: load[k] is the utilization of core k, in percent
    bcmd,       \* the command line formatted for the job
    launched,   \* the (args, fn) pairs handed to os.system, in order
    \* ---- get_free_cpu (Idle Core Probe) ----
    fpc,        \* "call" | "returned"
    fperc,      \* argument perc: the threshold, in percent
    fsample,    \* what psutil.cpu_percent(interval=1, percpu=True) reports
    fret        \* the returned list of (core, utilization)

evars == <<epc, setting_map, ret, file_name_format, emap>>

rvars == <<rpc, parg, timeout, parent, perf, alive, ch, ri, termCalls, killCalls,
           escal, killed, timedOut, exitedInTime, vanished, succ, err>>

linputs == <<path, setting, env0, os_environ, show_output, profile_ns3, build,
             buildExit, buildFillsPipe, perfInstalled, execDir>>

lvars == <<lpc, linputs, env, buildRuns, cmd, children, lexc, exitStatus>>

bvars == <<bpc, commons, settings, common_setting_param, params, fname_format, ji,
           cpus, load, bcmd, launched>>

fvars == <<fpc, fperc, fsample, fret>>

vars == <<evars, rvars, lvars, bvars, fvars>>

\* the variables a call of get_settings leaves alone
nonExpand == <<rvars, lvars, bvars, fvars>>

\* the variables a call of kill_proc_tree leaves alone
nonReap == <<evars, lvars, bvars, fvars>>

\* the variables a call of run_single_ns3 leaves alone
nonLaunch == <<evars, rvars, bvars, fvars>>

\* the variables a call of run_bulk_ns3 leaves alone
nonBulk == <<evars, rvars, lvars, fvars>>

\* the variables a call of get_free_cpu leaves alone
nonProbe == <<evars, rvars, lvars, bvars>>

----------------------------------------------------------------------------
(* Bounds *)
MaxKeys == 2        \* keys per setting map
MaxListLen == 3     \* elements of a list value
MaxInt == 3         \* integer scalars are 1..MaxInt
NumProcs == 3       \* processes on the machine when kill_proc_tree is called
NumCores == 4       \* cpu_num = psutil.cpu_count()

----------------------------------------------------------------------------
(* Python values *)

IntV(n) == [t |-> "int", v |-> n]
StrV(s) == [t |-> "str", v |-> s]
ListV(l) == [t |-> "list", v |-> l]

\* Text strings used as setting values: '', 'x', 'xy', 'x_'
StrValues == { <<>>, <<"x">>, <<"x", "y">>, <<"x", "_">> }

ScalarValues == { IntV(n) : n \in 1..MaxInt } \cup { StrV(s) : s \in StrValues }

\* list values: [], [1], [1, 2], ... and lists of text strings
ListValues ==
    { ListV([i \in 1..n |-> IntV(i)]) : n \in 0..MaxListLen }
        \cup { ListV(<<StrV(<<"x">>)>>), ListV(<<StrV(<<"x", "_">>), StrV(<<"y">>)>>) }

Values == ScalarValues \cup ListValues

KeyNames == { <<"a">>, <<"b">>, <<"o", "_">> }

RECURSIVE Digits(_)
\* str(n) of a natural number
Digits(n) ==
    LET d == <<"0", "1", "2", "3", "4", "5", "6", "7", "8", "9">>
    IN IF n < 10 THEN <<d[n + 1]>> ELSE Digits(n \div 10) \o <<d[(n % 10) + 1]>>

RECURSIVE JoinRepr(_)
Repr(v) ==
    IF v.t = "int" THEN Digits(v.v)
    ELSE IF v.t = "str" THEN <<"'">> \o v.v \o <<"'">>
    ELSE <<"[">> \o JoinRepr(v.v) \o <<"]">>

JoinRepr(l) ==
    IF l = <<>> THEN <<>>
    ELSE IF Len(l) = 1 THEN Repr(l[1])
    ELSE Repr(l[1]) \o <<",", " ">> \o JoinRepr(Tail(l))

\* '{}'.format(v)
Format(v) ==
    IF v.t = "int" THEN Digits(v.v)
    ELSE IF v.t = "str" THEN v.v
    ELSE Repr(v)

\* isinstance(value, Iterable): text strings and lists are Iterable, numbers are not
IsIterable(v) == v.t \in {"str", "list"}

\* list(value) for an Iterable value: a text string iterates over its characters
Iterate(v) ==
    IF v.t = "str" THEN [i \in 1..Len(v.v) |-> StrV(<<v.v[i]>>)]
    ELSE v.v

RECURSIVE LStrip(_)
LStrip(s) == IF s # <<>> /\ Head(s) = "_" THEN LStrip(Tail(s)) ELSE s

RECURSIVE RStrip(_)
RStrip(s) ==
    IF s # <<>> /\ s[Len(s)] = "_" THEN RStrip(SubSeq(s, 1, Len(s) - 1)) ELSE s

\* s.strip('_')
Strip(s) == RStrip(LStrip(s))

\* ' --{}={}'.format(key, v)
Option(key, v) == <<" ", "-", "-">> \o key \o <<"=">> \o Format(v)

RECURSIVE Concat(_)
Concat(ss) == IF ss = <<>> THEN <<>> ELSE Head(ss) \o Concat(Tail(ss))

\* the inner loop of get_settings: for precmd, prefn in ret
ExtendAll(prev, key, v) ==
    [i \in 1..Len(prev) |->
        <<prev[i][1] \o Option(key, v),
          Strip(prev[i][2] \o <<"_">> \o Format(v))>>]

\* the loops of lines 104-105 nested the other way round
NewRetPrefixMajor(prev, key, vals) ==
    Concat([i \in 1..Len(prev) |->
        [j \in 1..Len(vals) |->
            <<prev[i][1] \o Option(key, vals[j]),
              Strip(prev[i][2] \o <<"_">> \o Format(vals[j]))>>]])

\* the outer loop of get_settings: for v in value
NewRet(prev, key, vals) ==
    Concat([j \in 1..Len(vals) |-> ExtendAll(prev, key, vals[j])])

\* the prepending variant of line 100
FileNameFormatPrepend(prev, key) == key \o <<"_">> \o prev

\* file_name_format + '_' + key
FileNameFormat(prev, key) == prev \o <<"_">> \o key

RECURSIVE get_settings(_)
\* returns <<pairs, file_name_format>>; popitem removes the LAST inserted entry
get_settings(m) ==
    IF m = <<>> THEN << << <<(<<>>), (<<>>)>> >>, <<>> >>
    ELSE
        LET key == m[Len(m)][1]
            value == m[Len(m)][2]
            rec == get_settings(SubSeq(m, 1, Len(m) - 1))
            fnf == FileNameFormat(rec[2], key)
            vals == IF IsIterable(value) THEN Iterate(value) ELSE <<value>>
        IN <<NewRet(rec[1], key, vals), Strip(fnf)>>

\* get_setting: ' --key=value' for every entry in insertion order
get_setting(m) == Concat([i \in 1..Len(m) |-> Option(m[i][1], m[i][2])])

\* an ordered map: distinct keys
IsMap(m) == \A i, j \in 1..Len(m) : i # j => m[i][1] # m[j][1]

SettingMaps ==
    { m \in UNION { [1..n -> KeyNames \X Values] : n \in 0..MaxKeys } : IsMap(m) }

----------------------------------------------------------------------------
(* The state of each operation while it is not running *)

\* an optional argument: None, or a value
None == [isNone |-> TRUE, d |-> <<>>]
Some(x) == [isNone |-> FALSE, d |-> x]

Procs == 1..NumProcs

\* get_settings is not running
ExpandIdle ==
    /\ epc = "idle"
    /\ setting_map = <<>>
    /\ emap = <<>>
    /\ ret = <<>>
    /\ file_name_format = <<>>

\* kill_proc_tree is not running
ReapIdle ==
    /\ rpc = "idle"
    /\ parg = "pid"
    /\ timeout = "none"
    /\ parent = [q \in Procs |-> 0]
    /\ perf = {}
    /\ alive = [q \in Procs |-> TRUE]
    /\ ch = <<>>
    /\ ri = 0
    /\ termCalls = [q \in Procs |-> 0]
    /\ killCalls = [q \in Procs |-> 0]
    /\ escal = [q \in Procs |-> 0]
    /\ killed = {}
    /\ timedOut = {}
    /\ exitedInTime = {}
    /\ vanished = {}
    /\ succ = {}
    /\ err = {}

\* run_single_ns3 is not running
LaunchIdle ==
    /\ lpc = "idle"
    /\ path = [abs |-> TRUE, s |-> <<"/opt/ns3">>]
    /\ setting = None
    /\ env = None
    /\ env0 = None
    /\ os_environ = <<>>
    /\ show_output = FALSE
    /\ profile_ns3 = FALSE
    /\ build = FALSE
    /\ buildExit = 0
    /\ buildFillsPipe = FALSE
    /\ perfInstalled = FALSE
    /\ execDir = [exists |-> FALSE, files |-> <<>>]
    /\ buildRuns = 0
    /\ cmd = <<>>
    /\ children = <<>>
    /\ lexc = ""
    /\ exitStatus = -1

\* run_bulk_ns3 is not running
BulkIdle ==
    /\ bpc = "idle"
    /\ commons = <<>>
    /\ settings = <<>>
    /\ common_setting_param = <<>>
    /\ params = <<>>
    /\ fname_format = <<>>
    /\ ji = 0
    /\ cpus = <<>>
    /\ load = [k \in 0..(NumCores - 1) |-> 0]
    /\ bcmd = <<>>
    /\ launched = <<>>

\* get_free_cpu is not running on its own
ProbeIdle ==
    /\ fpc = "idle"
    /\ fperc = 0
    /\ fsample = [k \in 0..(NumCores - 1) |-> 0]
    /\ fret = <<>>

----------------------------------------------------------------------------
(* kill_proc_tree *)

\* the process kill_proc_tree is called on
RootPid == 1

\* process trees: a parent has a smaller pid than its children; 0 = not related
Trees == { f \in [Procs -> 0..NumProcs] : f[RootPid] = 0 /\ \A q \in Procs : f[q] < q }

RECURSIVE IsDescendant(_, _, _)
\* q is listed by p.children(recursive=True): q exists and is linked to the
\* root by existing processes
IsDescendant(q, par, al) ==
    /\ q # RootPid
    /\ al[q]
    /\ par[q] # 0
    /\ (par[q] = RootPid \/ IsDescendant(par[q], par, al))

Children(par, al) == { q \in Procs : IsDescendant(q, par, al) }

\* the orders in which a set of processes can be listed
Orders(S) ==
    { f \in [1..Cardinality(S) -> S] : \A i, j \in 1..Cardinality(S) : i # j => f[i] # f[j] }

\* the name test of line 72, always true
IsPerfNameAlways(q, names) == TRUE

\* the name test of line 72, always false
IsPerfNameNever(q, names) == FALSE

\* "perf" in c.name()
IsPerfName(q, names) == q \in names

\* c.wait(timeout=10) escalating whatever the outcome
AfterWaitAlways(exited) == "escalate"

\* lines 76-82: c.wait(timeout=10) returns, or TimeoutExpired leads to c.kill()
AfterWait(exited) == IF exited THEN "next" ELSE "escalate"

InitReap ==
    /\ rpc = "resolve"
    /\ parg \in {"pid", "popen", "handle"}
    /\ timeout \in {"none", "finite"}
    /\ parent \in Trees
    /\ perf \in SUBSET Procs
    /\ alive = [q \in Procs |-> TRUE]
    /\ ch = <<>>
    /\ ri = 0
    /\ termCalls = [q \in Procs |-> 0]
    /\ killCalls = [q \in Procs |-> 0]
    /\ escal = [q \in Procs |-> 0]
    /\ killed = {}
    /\ timedOut = {}
    /\ exitedInTime = {}
    /\ vanished = {}
    /\ succ = {}
    /\ err = {}
    /\ ExpandIdle
    /\ LaunchIdle
    /\ BulkIdle
    /\ ProbeIdle

\* the loop variable c
c == ch[ri]

\* a loop that steps over every other member
NextMemberSkip ==
    IF ri + 1 < Len(ch) THEN ri' = ri + 2 /\ rpc' = "name"
    ELSE ri' = ri /\ rpc' = "wait_procs"

\* continue / end of the loop body: the next member, or wait_procs after the last
NextMember ==
    IF ri < Len(ch) THEN ri' = ri + 1 /\ rpc' = "name"
    ELSE ri' = ri /\ rpc' = "wait_procs"

\* Environment: a process exits on its own at any moment of the call
ProcExit ==
    /\ rpc \notin {"idle", "returned", "raised"}
    /\ \E q \in Procs :
        /\ alive[q]
        /\ q \notin killed
        /\ alive' = [alive EXCEPT ![q] = FALSE]
        /\ vanished' = vanished \cup {q}
    /\ UNCHANGED <<rpc, parg, timeout, parent, perf, ch, ri, termCalls, killCalls,
                   escal, killed, timedOut, exitedInTime, succ, err>>
    /\ UNCHANGED nonReap

\* lines 65-68: a pid or a Popen object is resolved with psutil.Process(pid),
\* which raises NoSuchProcess when the pid does not exist; not caught
Resolve ==
    /\ rpc = "resolve"
    /\ IF parg \in {"pid", "popen"} /\ ~alive[RootPid]
       THEN rpc' = "raised" /\ UNCHANGED parg
       ELSE rpc' = "enumerate" /\ parg' = "handle"
    /\ UNCHANGED <<timeout, parent, perf, alive, ch, ri, termCalls, killCalls,
                   escal, killed, timedOut, exitedInTime, vanished, succ, err>>
    /\ UNCHANGED nonReap

\* line 69: p.children(recursive=True) raises NoSuchProcess when p is gone; not caught
Enumerate ==
    /\ rpc = "enumerate"
    /\ IF ~alive[RootPid]
       THEN rpc' = "raised" /\ UNCHANGED <<ch, ri>>
       ELSE /\ \E o \in Orders(Children(parent, alive)) : ch' = <<RootPid>> \o o
            /\ ri' = 1
            /\ rpc' = "name"
    /\ UNCHANGED <<parg, timeout, parent, perf, alive, termCalls, killCalls,
                   escal, killed, timedOut, exitedInTime, vanished, succ, err>>
    /\ UNCHANGED nonReap

\* line 72: c.name() raises NoSuchProcess when c is gone (caught at line 88)
Name ==
    /\ rpc = "name"
    /\ IF ~alive[c] THEN NextMember
       ELSE /\ rpc' = IF IsPerfName(c, perf) THEN "send_signal" ELSE "kill"
            /\ ri' = ri
    /\ UNCHANGED <<parg, timeout, parent, perf, alive, ch, termCalls, killCalls,
                   escal, killed, timedOut, exitedInTime, vanished, succ, err>>
    /\ UNCHANGED nonReap

\* line 75: c.send_signal(SIGTERM); NoSuchProcess is caught at line 88
SendSignal ==
    /\ rpc = "send_signal"
    /\ IF ~alive[c] THEN NextMember /\ UNCHANGED termCalls
       ELSE /\ termCalls' = [termCalls EXCEPT ![c] = @ + 1]
            /\ rpc' = "wait"
            /\ ri' = ri
    /\ UNCHANGED <<parg, timeout, parent, perf, alive, ch, killCalls,
                   escal, killed, timedOut, exitedInTime, vanished, succ, err>>
    /\ UNCHANGED nonReap

\* line 76: c.wait(timeout=10) returns when c is gone, or was gone already,
\* and raises TimeoutExpired when c is still there after 10 seconds
Wait ==
    /\ rpc = "wait"
    /\ \E exited \in BOOLEAN :
        /\ ~alive[c] => exited
        /\ alive' = [alive EXCEPT ![c] = @ /\ ~exited]
        /\ exitedInTime' = IF exited THEN exitedInTime \cup {c} ELSE exitedInTime
        /\ timedOut' = IF exited THEN timedOut ELSE timedOut \cup {c}
        /\ IF AfterWait(exited) = "next" THEN NextMember
           ELSE rpc' = "escalate" /\ ri' = ri
    /\ UNCHANGED <<parg, timeout, parent, perf, ch, termCalls, killCalls,
                   escal, killed, vanished, succ, err>>
    /\ UNCHANGED nonReap

\* lines 81-85: c.kill() after TimeoutExpired; NoSuchProcess is caught, continue
Escalate ==
    /\ rpc = "escalate"
    /\ killCalls' = [killCalls EXCEPT ![c] = @ + 1]
    /\ escal' = [escal EXCEPT ![c] = @ + 1]
    /\ killed' = IF alive[c] THEN killed \cup {c} ELSE killed
    /\ NextMember
    /\ UNCHANGED <<parg, timeout, parent, perf, alive, ch, termCalls,
                   timedOut, exitedInTime, vanished, succ, err>>
    /\ UNCHANGED nonReap

\* line 87: c.kill(); NoSuchProcess is caught at line 88, continue
Kill ==
    /\ rpc = "kill"
    /\ killCalls' = [killCalls EXCEPT ![c] = @ + 1]
    /\ killed' = IF alive[c] THEN killed \cup {c} ELSE killed
    /\ NextMember
    /\ UNCHANGED <<parg, timeout, parent, perf, alive, ch, termCalls,
                   escal, timedOut, exitedInTime, vanished, succ, err>>
    /\ UNCHANGED nonReap

Members == { ch[i] : i \in 1..Len(ch) }

\* lines 90-92: psutil.wait_procs(ch, timeout): the members gone when the
\* timeout expires are returned in succ, the others in err; without a timeout
\* it waits until every member is gone
WaitProcs ==
    /\ rpc = "wait_procs"
    /\ \E exits \in SUBSET { q \in Members : alive[q] } :
        /\ timeout = "none" => exits = { q \in Members : alive[q] }
        /\ alive' = [q \in Procs |-> alive[q] /\ q \notin exits]
        /\ succ' = { q \in Members : ~alive[q] \/ q \in exits }
        /\ err' = { q \in Members : alive[q] /\ q \notin exits }
    /\ rpc' = "returned"
    /\ UNCHANGED <<parg, timeout, parent, perf, ch, ri, termCalls, killCalls,
                   escal, killed, timedOut, exitedInTime, vanished>>
    /\ UNCHANGED nonReap

NextReap ==
    \/ Resolve
    \/ Enumerate
    \/ Name
    \/ SendSignal
    \/ Wait
    \/ Escalate
    \/ Kill
    \/ WaitProcs
    \/ ProcExit

SpecReap == InitReap /\ [][NextReap]_vars

----------------------------------------------------------------------------
(* build_ns3, check_program_installed, run_single_ns3 *)
(* Paths, commands and environment values are texts given as sequences of  *)
(* chunks; the text is the concatenation of the chunks.                    *)

\* dict objects: functions from a set of names to values
DictsOver(names, vals) == UNION { [S -> vals] : S \in SUBSET names }

EnvNames == {"X", "LD_LIBRARY_PATH"}

\* the caller's env argument: None (the default) or a dict, possibly empty
CallerEnvs == {None} \cup { Some(d) : d \in DictsOver(EnvNames, { <<"caller">> }) }

OsEnvirons == DictsOver(EnvNames, { <<"process">> })

\* the current directory of the controlling process
Cwd == <<"/home/user">>

\* path arguments: one absolute, one relative to the current directory
Paths == { [abs |-> TRUE, s |-> <<"/opt/ns3">>], [abs |-> FALSE, s |-> <<"ns3">>] }

\* os.path.join(path, a, b)
Join3(p, a, b) == [abs |-> p.abs, s |-> p.s \o <<"/", a, "/", b>>]

\* os.path.abspath(p)
AbsPath(p) == IF p.abs THEN p.s ELSE Cwd \o <<"/">> \o p.s

pname == <<"s", "i", "m">>

\* the setting argument: None (the default), or a map
LaunchSettings ==
    { None,
      Some(<<>>),
      Some(<< << <<"a">>, IntV(1) >> >>),
      Some(<< << <<"outDir">>, StrV(<<"o", "u", "t">>) >>, << <<"a">>, IntV(2) >> >>) }

\* file names found in the program's output directory
FileNames == { <<"n", "s", "3", "-", "s", "i", "m">>, <<"s", "i", "m", ".", "o">> }

ExecDirs ==
    { [exists |-> FALSE, files |-> <<>>] } \cup
    { [exists |-> TRUE, files |-> l] : l \in UNION { [1..n -> FileNames] : n \in 0..2 } }

\* f.startswith("ns")
StartsWithNs(f) == Len(f) >= 2 /\ f[1] = "n" /\ f[2] = "s"

RECURSIVE Filter(_)
\* [f for f in listing if f.startswith("ns")]
Filter(l) ==
    IF l = <<>> THEN <<>>
    ELSE IF StartsWithNs(Head(l)) THEN <<Head(l)>> \o Filter(Tail(l))
    ELSE Filter(Tail(l))

\* dict.update: the entries of e replace and extend those of d
Update(d, e) ==
    [k \in DOMAIN d \cup DOMAIN e |-> IF k \in DOMAIN e THEN e[k] ELSE d[k]]

\* the merge with the caller's entries taking precedence
MergeEnvCallerWins(d, environ) == Update(environ, d)

\* line 140: env.update(os.environ)
MergeEnv(d, environ) == Update(d, environ)

\* d[k] = v
SetItem(d, k, v) == [j \in DOMAIN d \cup {k} |-> IF j = k THEN v ELSE d[j]]

\* line 141: os.path.abspath(os.path.join(path, 'build', 'lib'))
LibDir(p) == AbsPath(Join3(p, "build", "lib"))

\* line 142: os.path.join(path, 'build', 'scratch')
exec_path(p) == Join3(p, "build", "scratch").s

HasKey(m, k) == \E i \in 1..Len(m) : m[i][1] = k

Lookup(m, k) == m[CHOOSE i \in 1..Len(m) : m[i][1] = k][2]

\* line 150
base_out_dir(st) ==
    IF ~st.isNone /\ HasKey(st.d, <<"outDir">>) THEN Format(Lookup(st.d, <<"outDir">>))
    ELSE <<".">>

\* line 151-152: str((Path(base_out_dir) / "perf.data").resolve())
perf_out_fp(st) ==
    IF base_out_dir(st) = <<".">> THEN Cwd \o <<"/", "perf.data">>
    ELSE Cwd \o <<"/">> \o base_out_dir(st) \o <<"/", "perf.data">>

\* the path shutil.which("perf") returns when the tool is installed
PerfPath == <<"/usr/bin/perf">>

\* line 152-153: the profiler invocation wrapped around the command
WrapPerf(st, inner) ==
    PerfPath \o <<" ", "record -o ">> \o perf_out_fp(st)
        \o <<" -g -e cpu-cycles,context-switches", " ", "bash -c '">> \o inner \o <<"'">>

\* the build result test accepting every exit code
BuildOkAlways(code) == TRUE

\* line 124: ok = proc.returncode == 0
BuildOk(code) == code = 0

\* the exit status the operating system reports for exit(n)
ExitStatusOf(n) == n % 256

InitLaunch ==
    /\ lpc = "build"
    /\ path \in Paths
    /\ setting \in LaunchSettings
    /\ env \in CallerEnvs
    /\ env0 = env
    /\ os_environ \in OsEnvirons
    /\ show_output \in BOOLEAN
    /\ profile_ns3 \in BOOLEAN
    /\ build \in BOOLEAN
    /\ buildExit \in {0, 1}
    /\ buildFillsPipe \in BOOLEAN
    /\ perfInstalled \in BOOLEAN
    /\ execDir \in ExecDirs
    /\ buildRuns = 0
    /\ cmd = <<>>
    /\ children = <<>>
    /\ lexc = ""
    /\ exitStatus = -1
    /\ ExpandIdle
    /\ ReapIdle
    /\ BulkIdle
    /\ ProbeIdle

\* lines 137-138 with build_ns3 (lines 118-125): './ns3 build' is started with
\* stdout=PIPE and waited for without reading the pipe, so a build that writes
\* more than the pipe holds never exits and proc.wait() never returns
Build ==
    /\ lpc = "build"
    /\ IF ~build
       THEN lpc' = "env" /\ UNCHANGED <<buildRuns, lexc>>
       ELSE /\ buildRuns' = buildRuns + 1
            /\ IF buildFillsPipe
               THEN lpc' = "build_blocked" /\ UNCHANGED lexc
               ELSE IF ~BuildOk(buildExit)
               THEN lpc' = "raised" /\ lexc' = "RuntimeError"
               ELSE lpc' = "env" /\ UNCHANGED lexc
    /\ UNCHANGED <<linputs, env, cmd, children, exitStatus>>
    /\ UNCHANGED nonLaunch

\* lines 139-141: a non-empty env dict is updated with os.environ, then
\* LD_LIBRARY_PATH is stored in env; storing into None raises TypeError
SetEnv ==
    /\ lpc = "env"
    /\ IF env.isNone
       THEN lpc' = "raised" /\ lexc' = "TypeError" /\ UNCHANGED env
       ELSE /\ env' = Some(SetItem(IF env.d # <<>> THEN MergeEnv(env.d, os_environ) ELSE env.d,
                                   "LD_LIBRARY_PATH", LibDir(path)))
            /\ lpc' = "listdir"
            /\ UNCHANGED lexc
    /\ UNCHANGED <<linputs, buildRuns, cmd, children, exitStatus>>
    /\ UNCHANGED nonLaunch

\* lines 144-147: the first file starting with "ns" names the executable
MakeCmd ==
    /\ lpc = "listdir"
    /\ IF ~execDir.exists
       THEN lpc' = "raised" /\ lexc' = "FileNotFoundError" /\ UNCHANGED cmd
       ELSE IF Filter(execDir.files) = <<>>
       THEN lpc' = "raised" /\ lexc' = "IndexError" /\ UNCHANGED cmd
       ELSE /\ cmd' = <<"./">> \o pname \o <<"/">> \o Filter(execDir.files)[1]
                        \o (IF ~setting.isNone /\ setting.d # <<>>
                            THEN get_setting(setting.d) ELSE <<>>)
            /\ lpc' = "profile"
            /\ UNCHANGED lexc
    /\ UNCHANGED <<linputs, env, buildRuns, children, exitStatus>>
    /\ UNCHANGED nonLaunch

\* lines 148-153 with check_program_installed (lines 128-133)
Profile ==
    /\ lpc = "profile"
    /\ IF ~profile_ns3
       THEN lpc' = "spawn" /\ UNCHANGED <<cmd, exitStatus>>
       ELSE IF ~perfInstalled
       THEN lpc' = "exited" /\ exitStatus' = ExitStatusOf(-1) /\ UNCHANGED cmd
       ELSE lpc' = "spawn" /\ cmd' = WrapPerf(setting, cmd) /\ UNCHANGED exitStatus
    /\ UNCHANGED <<linputs, env, buildRuns, children, lexc>>
    /\ UNCHANGED nonLaunch

\* lines 154-160: Popen starts the child and the handle is returned at once
Spawn ==
    /\ lpc = "spawn"
    /\ children' = Append(children,
            [cmd |-> cmd, env |-> env.d, cwd |-> exec_path(path),
             stdout |-> IF show_output THEN "inherit" ELSE "pipe",
             stderr |-> IF show_output THEN "inherit" ELSE "devnull",
             waited |-> FALSE])
    /\ lpc' = "returned"
    /\ UNCHANGED <<linputs, env, buildRuns, cmd, lexc, exitStatus>>
    /\ UNCHANGED nonLaunch

NextLaunch ==
    \/ Build
    \/ SetEnv
    \/ MakeCmd
    \/ Profile
    \/ Spawn

SpecLaunch == InitLaunch /\ [][NextLaunch]_vars

----------------------------------------------------------------------------
(* get_free_cpu and run_bulk_ns3 *)

RESERVE_CPU == 4

\* the default threshold of get_free_cpu, in percent
DefaultPerc == 20

Cores == 0..(NumCores - 1)

\* utilization samples psutil.cpu_percent can report for a core, in percent
Utils == {0, 15, 40}

Loads == [Cores -> Utils]

\* x comes before y when sorted by key=lambda x: x[1]; sorted() is stable and
\* the input is in core order
Before(x, y) == x[2] < y[2] \/ (x[2] = y[2] /\ x[1] < y[1])

RECURSIVE SortByUtil(_)
SortByUtil(S) ==
    IF S = {} THEN <<>>
    ELSE LET m == CHOOSE x \in S : \A y \in S \ {x} : Before(x, y)
         IN <<m>> \o SortByUtil(S \ {m})

\* the filter keeping a core whose utilization equals the threshold
IsBelowOrEqual(u, perc) == u <= perc

\* line 61: lambda x: x[1] < perc
IsBelow(u, perc) == u < perc

\* line 61: the cores below perc, as (core, utilization), ascending by utilization
get_free_cpu(perc, sample) ==
    SortByUtil({ <<k, sample[k]>> : k \in { j \in Cores : IsBelow(sample[j], perc) } })

\* the thresholds get_free_cpu is called with; 20 is the default
Thresholds == {0, 15, DefaultPerc, 40, 50}

InitProbe ==
    /\ fpc = "call"
    /\ fperc \in Thresholds
    /\ fsample \in Loads
    /\ fret = <<>>
    /\ ExpandIdle
    /\ ReapIdle
    /\ LaunchIdle
    /\ BulkIdle

\* lines 60-61: one call of get_free_cpu
GetFreeCpu ==
    /\ fpc = "call"
    /\ fret' = get_free_cpu(fperc, fsample)
    /\ fpc' = "returned"
    /\ UNCHANGED <<fperc, fsample>>
    /\ UNCHANGED nonProbe

NextProbe == GetFreeCpu

SpecProbe == InitProbe /\ [][NextProbe]_vars

\* the loop test one core short of the reservation
MustWaitOneShort(snapshot) == Len(snapshot) < RESERVE_CPU - 1

\* line 172: len(cpus) < RESERVE_CPU
MustWait(snapshot) == Len(snapshot) < RESERVE_CPU

\* the core of the last element of the snapshot
PinCoreLast(snapshot) == snapshot[Len(snapshot)][1]

\* line 175: cpus[0][0]
PinCore(snapshot) == snapshot[1][1]

\* lines 174-175: the shell command of one job
BulkCmd(core, common, args, fn) ==
    <<"taskset -c ">> \o Digits(core) \o <<" nohup ./waf --run ">> \o pname
        \o common \o args \o <<" > ">> \o fn \o <<"&">>

\* the common settings handed to run_bulk_ns3
CommonsSets == { << << <<"c">>, ListV(<<IntV(1), IntV(2)>>) >> >> }

\* the settings lists handed to run_bulk_ns3
SettingsLists ==
    { <<>>,
      << << << <<"a">>, IntV(1) >> >> >>,
      << << << <<"a">>, ListV(<<IntV(1), IntV(2)>>) >> >>, << << <<"b">>, IntV(3) >> >> >> }

RECURSIVE ExpandAll(_)
\* lines 166-169: the pairs of every map, concatenated in list order
ExpandAll(l) ==
    IF l = <<>> THEN <<>> ELSE get_settings(Head(l))[1] \o ExpandAll(Tail(l))

InitBulk ==
    /\ bpc = "expand"
    /\ commons \in CommonsSets
    /\ settings \in SettingsLists
    /\ common_setting_param = <<>>
    /\ params = <<>>
    /\ fname_format = <<>>
    /\ ji = 0
    /\ cpus = <<>>
    /\ load = [k \in Cores |-> 0]
    /\ bcmd = <<>>
    /\ launched = <<>>
    /\ ExpandIdle
    /\ ReapIdle
    /\ LaunchIdle
    /\ ProbeIdle

\* Environment: the utilization of a core changes while run_bulk_ns3 sleeps
LoadChange ==
    /\ bpc = "sleep"
    /\ \E k \in Cores, u \in Utils :
        /\ load[k] # u
        /\ load' = [load EXCEPT ![k] = u]
    /\ UNCHANGED <<bpc, commons, settings, common_setting_param, params, fname_format,
                   ji, cpus, bcmd, launched>>
    /\ UNCHANGED nonBulk

\* a for statement that steps over every other job
NextJobSkip ==
    IF ji + 1 < Len(params) THEN ji' = ji + 2 /\ bpc' = "probe"
    ELSE ji' = ji /\ bpc' = "done"

\* the for statement of line 170: the next job, or the end of run_bulk_ns3
NextJob ==
    IF ji < Len(params) THEN ji' = ji + 1 /\ bpc' = "probe"
    ELSE ji' = ji /\ bpc' = "done"

\* lines 164-169
ExpandSettings ==
    /\ bpc = "expand"
    /\ common_setting_param' = get_setting(commons)
    /\ params' = ExpandAll(settings)
    /\ fname_format' = [i \in 1..Len(settings) |-> get_settings(settings[i])[2]]
    /\ IF ExpandAll(settings) # <<>> THEN ji' = 1 /\ bpc' = "probe"
       ELSE ji' = 0 /\ bpc' = "done"
    /\ UNCHANGED <<commons, settings, cpus, load, bcmd, launched>>
    /\ UNCHANGED nonBulk

\* line 171: cpus = get_free_cpu(); the machine is sampled as it is by then
Probe ==
    /\ bpc = "probe"
    /\ \E sample \in Loads :
        /\ load' = sample
        /\ cpus' = get_free_cpu(DefaultPerc, sample)
    /\ bpc' = "test"
    /\ UNCHANGED <<commons, settings, common_setting_param, params, fname_format,
                   ji, bcmd, launched>>
    /\ UNCHANGED nonBulk

\* line 172: the test of the while statement
TestReserve ==
    /\ bpc = "test"
    /\ bpc' = IF MustWait(cpus) THEN "sleep" ELSE "format"
    /\ UNCHANGED <<commons, settings, common_setting_param, params, fname_format,
                   ji, cpus, load, bcmd, launched>>
    /\ UNCHANGED nonBulk

\* line 173: time.sleep(5), then the test again; cpus is not assigned in the loop
Sleep ==
    /\ bpc = "sleep"
    /\ bpc' = "test"
    /\ UNCHANGED <<commons, settings, common_setting_param, params, fname_format,
                   ji, cpus, load, bcmd, launched>>
    /\ UNCHANGED nonBulk

\* lines 174-175
FormatCmd ==
    /\ bpc = "format"
    /\ bcmd' = BulkCmd(PinCore(cpus), common_setting_param, params[ji][1], params[ji][2])
    /\ bpc' = "system"
    /\ UNCHANGED <<commons, settings, common_setting_param, params, fname_format,
                   ji, cpus, load, launched>>
    /\ UNCHANGED nonBulk

\* line 176: os.system(cmd) starts the background job and returns
System ==
    /\ bpc = "system"
    /\ launched' = Append(launched, params[ji])
    /\ NextJob
    /\ UNCHANGED <<commons, settings, common_setting_param, params, fname_format,
                   cpus, load, bcmd>>
    /\ UNCHANGED nonBulk

run_bulk_ns3 ==
    \/ ExpandSettings
    \/ Probe
    \/ TestReserve
    \/ Sleep
    \/ FormatCmd
    \/ System

NextBulk ==
    \/ ExpandSettings
    \/ Probe
    \/ TestReserve
    \/ Sleep
    \/ FormatCmd
    \/ System
    \/ LoadChange

SpecBulk == InitBulk /\ [][NextBulk]_vars

\* run_bulk_ns3 runs in a single thread that is never suspended for ever
FairSpecBulk == InitBulk /\ [][NextBulk]_vars /\ WF_vars(run_bulk_ns3)

----------------------------------------------------------------------------
(* get_settings as a state machine: one call on a map drawn from SettingMaps *)

InitExpand ==
    /\ epc = "start"
    /\ setting_map \in SettingMaps
    /\ emap = setting_map
    /\ ret = <<>>
    /\ file_name_format = <<>>
    /\ ReapIdle
    /\ LaunchIdle
    /\ BulkIdle
    /\ ProbeIdle

Expand ==
    /\ epc = "start"
    /\ ret' = get_settings(setting_map)[1]
    /\ file_name_format' = get_settings(setting_map)[2]
    /\ emap' = <<>>
    /\ epc' = "done"
    /\ UNCHANGED setting_map
    /\ UNCHANGED nonExpand

NextExpand == Expand

SpecExpand == InitExpand /\ [][NextExpand]_vars

----------------------------------------------------------------------------
(* Properties of get_settings *)

\* s contains sub as a substring
Contains(s, sub) ==
    \E i \in 0..(Len(s) - Len(sub)) : SubSeq(s, i + 1, i + Len(sub)) = sub

\* cardinality of a value as the specification counts it: a list counts its
\* elements, every scalar (number or text string) counts 1
SpecCard(v) == IF v.t = "list" THEN Len(v.v) ELSE 1

RECURSIVE SpecCount(_)
SpecCount(m) == IF m = <<>> THEN 1 ELSE SpecCard(Head(m)[2]) * SpecCount(Tail(m))

\* C3: the number of pairs returned by get_settings is the product of the
\* cardinalities of the values (every scalar, number or text string, counts
\* 1), and the empty map yields exactly the pair ('', '').
C3_CountIsProduct ==
    epc = "done" =>
        /\ Len(ret) = SpecCount(setting_map)
        /\ (setting_map = <<>> => ret = << <<(<<>>), (<<>>)>> >>)

\* the map {a: [1, 2], b: 3}, keys inserted in that order
MapAB == << << <<"a">>, ListV(<<IntV(1), IntV(2)>>) >>, << <<"b">>, IntV(3) >> >>

PairsOfMapAB ==
    /\ Len(ret) = 2
    /\ \A i \in 1..2 : Contains(ret[i][1], <<"-", "-", "b", "=", "3">>)
    /\ \E i, j \in 1..2 :
        /\ i # j
        /\ Contains(ret[i][1], <<"-", "-", "a", "=", "1">>)
        /\ ~Contains(ret[i][1], <<"-", "-", "a", "=", "2">>)
        /\ Contains(ret[j][1], <<"-", "-", "a", "=", "2">>)
        /\ ~Contains(ret[j][1], <<"-", "-", "a", "=", "1">>)

\* C10 as stated: expanding {a: [1, 2], b: 3} yields 2 pairs, both with --b=3,
\* one with --a=1 and one with --a=2, and the format name is "b_a".
C10_FormatPrepended ==
    (epc = "done" /\ setting_map = MapAB) =>
        (PairsOfMapAB /\ file_name_format = <<"b", "_", "a">>)

\* C10 amended: expanding {a: [1, 2], b: 3} yields 2 pairs, both with --b=3,
\* one with --a=1 and one with --a=2, and the format name is "a_b": the key
\* names in insertion order, underscore-joined and trimmed.
C10_FormatInsertionOrder ==
    (epc = "done" /\ setting_map = MapAB) =>
        (PairsOfMapAB /\ file_name_format = <<"a", "_", "b">>)

C10_Witness ==
    /\ epc = "done"
    /\ setting_map = MapAB
    /\ Len(ret) = 2
    /\ file_name_format = <<"a", "_", "b">>

\* the entry get_settings removes first: the last one inserted
CurKey == setting_map[Len(setting_map)][1]

\* the values the current key is expanded to, in order
CurVals ==
    LET value == setting_map[Len(setting_map)][2]
    IN IF IsIterable(value) THEN Iterate(value) ELSE <<value>>

EndsWith(s, suf) ==
    Len(s) >= Len(suf) /\ SubSeq(s, Len(s) - Len(suf) + 1, Len(s)) = suf

\* the command of pair k without the option of the current key
PrefixCmd(k, v) == SubSeq(ret[k][1], 1, Len(ret[k][1]) - Len(Option(CurKey, v)))

\* C11 as stated: the combinations of the remaining keys are the outer loop
\* and the current key's values the inner loop: pair k carries value
\* ((k-1) mod n) + 1 of the current key, and the n pairs extending one prefix
\* combination are adjacent.
C11_PrefixOuterValuesInner ==
    (epc = "done" /\ setting_map # <<>> /\ CurVals # <<>>) =>
        LET n == Len(CurVals)
        IN \A k \in 1..Len(ret) :
            LET v == CurVals[((k - 1) % n) + 1]
                first == ((k - 1) \div n) * n + 1
            IN /\ EndsWith(ret[k][1], Option(CurKey, v))
               /\ PrefixCmd(k, v) = PrefixCmd(first, CurVals[1])

\* C11 amended: the current key's values are the outer (slowest-varying) loop
\* and the combinations of the remaining keys the inner (fastest-varying)
\* loop: with P combinations of the remaining keys, pair k carries value
\* ((k-1) div P) + 1 of the current key, all pairs with the same value of the
\* current key are adjacent, and within each such block the prefix
\* combinations come in the same order.
C11_ValuesOuterPrefixInner ==
    (epc = "done" /\ setting_map # <<>> /\ CurVals # <<>>) =>
        LET n == Len(CurVals)
            P == Len(ret) \div n
        IN /\ Len(ret) = n * P
           /\ \A k \in 1..Len(ret) :
                LET v == CurVals[((k - 1) \div P) + 1]
                    inFirst == ((k - 1) % P) + 1
                IN /\ EndsWith(ret[k][1], Option(CurKey, v))
                   /\ PrefixCmd(k, v) = PrefixCmd(inFirst, CurVals[1])

\* two keys with 2 and 3 values: 6 pairs, the first two carrying the first
\* value of the current key and the two combinations of the other key
C11_Witness ==
    /\ epc = "done"
    /\ setting_map = << << <<"a">>, ListV(<<IntV(1), IntV(2)>>) >>,
                        << <<"b">>, ListV(<<IntV(1), IntV(2), IntV(3)>>) >> >>
    /\ Len(ret) = 6
    /\ Contains(ret[1][1], <<"a", "=", "1", " ", "-", "-", "b", "=", "1">>)
    /\ Contains(ret[2][1], <<"a", "=", "2", " ", "-", "-", "b", "=", "1">>)
    /\ Contains(ret[3][1], <<"a", "=", "1", " ", "-", "-", "b", "=", "2">>)

----------------------------------------------------------------------------
(* Properties of kill_proc_tree *)

\* C4: kill_proc_tree never propagates NoSuchProcess to its caller, whichever
\* process of the tree has exited and whenever (the root before it is
\* resolved or before its descendants are enumerated, a member before it is
\* signalled).
C4_NeverRaises == rpc # "raised"

\* C5: once kill_proc_tree has returned, a perf-named process whose
\* c.wait(timeout=10) timed out has received exactly one kill() call, that
\* call being the escalation; no other process of the tree has an escalation
\* kill; and a perf-named process whose wait returned within the 10 seconds
\* has no kill() call at all.
C5_OneEscalation ==
    rpc = "returned" =>
        /\ \A q \in timedOut : q \in perf /\ escal[q] = 1 /\ killCalls[q] = 1
        /\ \A q \in Procs \ timedOut : escal[q] = 0
        /\ \A q \in exitedInTime : killCalls[q] = 0

\* a tree with a perf-named process that timed out and was escalated, a
\* perf-named sibling that exited in time and a sibling that is not perf-named
C5_Witness ==
    /\ rpc = "returned"
    /\ \E q \in timedOut : escal[q] = 1 /\ q \in killed
    /\ \E q \in exitedInTime : termCalls[q] = 1 /\ killCalls[q] = 0
    /\ \E q \in Members \ perf : killCalls[q] = 1 /\ escal[q] = 0

\* C6: reaping a live process that has no descendants and is not perf-named
\* calls kill() exactly once, on that process, sends no other signal, and
\* returns that process in succ (with err empty) when it exits within the
\* timeout.
C6_SingleKill ==
    (rpc = "returned" /\ ch = <<RootPid>> /\ RootPid \notin perf /\ RootPid \notin vanished) =>
        /\ killCalls = [q \in Procs |-> IF q = RootPid THEN 1 ELSE 0]
        /\ termCalls = [q \in Procs |-> 0]
        /\ killed = {RootPid}
        /\ (~alive[RootPid] => succ = {RootPid} /\ err = {})

C6_Witness ==
    /\ rpc = "returned"
    /\ ch = <<RootPid>>
    /\ RootPid \notin perf
    /\ RootPid \notin vanished
    /\ timeout = "finite"
    /\ killCalls[RootPid] = 1
    /\ succ = {RootPid}
    /\ err = {}

\* C17: a profiling-named process is never sent a forceful kill unless it was
\* first sent SIGTERM and its wait of up to 10 seconds then timed out; a
\* process that is not profiling-named is never sent SIGTERM.
C17_GracefulBeforeForce ==
    /\ \A q \in perf :
          killCalls[q] > 0 => (termCalls[q] >= 1 /\ q \in timedOut)
    /\ \A q \in Procs \ perf : termCalls[q] = 0 /\ q \notin timedOut
    /\ rpc = "escalate" => (c \in perf /\ termCalls[c] >= 1 /\ c \in timedOut)
    /\ rpc = "kill" => c \notin perf

\* a profiling-named member was killed after its wait timed out, and another
\* member was killed without a signal before it
C17_Witness ==
    /\ rpc = "returned"
    /\ \E q \in perf : killCalls[q] = 1 /\ termCalls[q] = 1 /\ q \in timedOut
    /\ \E q \in Members \ perf : killCalls[q] = 1 /\ termCalls[q] = 0

\* a termination action was issued to q, or q was skipped as vanished
Handled(q) == termCalls[q] + killCalls[q] >= 1 \/ q \in vanished

\* C18: kill_proc_tree returns only after a termination action has been
\* issued to (or skipped, as vanished, for) every member of the set made of
\* the root and all its recursive descendants; succ and err are disjoint,
\* their union is exactly that set, and succ holds exactly the members gone
\* when wait_procs ends. The set is the root, closed under "child of a member"
\* except for children that had exited on their own, each listed once.
C18_ReturnedPartition ==
    /\ rpc \in {"wait_procs", "returned"} =>
          /\ RootPid \in Members
          /\ Len(ch) = Cardinality(Members)
          /\ \A q \in Members \ {RootPid} : parent[q] \in Members
          /\ \A q \in Procs \ Members : parent[q] \in Members => q \in vanished
          /\ \A q \in Members : Handled(q)
    /\ rpc = "returned" =>
          /\ succ \cap err = {}
          /\ succ \cup err = Members
          /\ succ = { q \in Members : ~alive[q] }
          /\ timeout = "none" => err = {}
    /\ rpc # "returned" => (succ = {} /\ err = {})

\* a tree of three members: one skipped as vanished, one gone after its
\* kill, one still there when the caller's timeout expired
C18_Witness ==
    /\ rpc = "returned"
    /\ Cardinality(Members) = 3
    /\ \E q \in Members : q \in vanished /\ termCalls[q] + killCalls[q] = 0
    /\ \E q \in succ : q \in killed
    /\ err # {}

\* the members c.wait(timeout=10) has been called on so far
Waited == timedOut \cup exitedInTime

\* C19: every process that is not profiling-named is force-killed with no
\* grace period: when the kill() of line 87 is about to be called on a
\* member, kill_proc_tree has made no blocking wait since the start of the
\* loop, also when the tree contains a profiling-named process.
C19_NoWaitBeforeKill == rpc = "kill" => Waited = {}

----------------------------------------------------------------------------
(* Properties of run_single_ns3 *)

\* the call has ended: returned, raised, or ended the controlling process
LaunchEnded == lpc \in {"returned", "raised", "exited"}

\* './ns3 build' ran to its end with a non-zero exit code
BuildFailed == build /\ ~buildFillsPipe /\ buildExit # 0

\* C7: run_single_ns3 with build=True whose build step fails raises the
\* build-failure error (RuntimeError) straight from the build step and spawns
\* no child, whatever the other arguments are.
C7_BuildFailureNoSpawn ==
    BuildFailed =>
        /\ children = <<>>
        /\ lpc \in {"build", "raised"}
        /\ (lpc = "raised" => lexc = "RuntimeError" /\ buildRuns = 1 /\ env = env0)

C7_Witness ==
    /\ BuildFailed
    /\ lpc = "raised"
    /\ lexc = "RuntimeError"
    /\ children = <<>>
    /\ profile_ns3
    /\ ~env0.isNone

\* the build, if requested, succeeded and the compiled executable is present
\* (and the profiler, if requested, is installed)
LaunchPossible ==
    /\ build => (~buildFillsPipe /\ buildExit = 0)
    /\ execDir.exists
    /\ Filter(execDir.files) # <<>>
    /\ profile_ns3 => perfInstalled

\* C8: every call of run_single_ns3 in which the build (if requested)
\* succeeds and the executable is present ends by returning the handle of
\* exactly one spawned child, which it has not waited for; calls with the
\* defaults setting=None, env=None included.
C8_SpawnsOneAndReturns ==
    (LaunchPossible /\ LaunchEnded) =>
        /\ lpc = "returned"
        /\ Len(children) = 1
        /\ ~children[1].waited

\* the environment the claim describes: os.environ overridden by the caller's
\* entries, then LD_LIBRARY_PATH set to <path>/build/lib
ClaimedChildEnv ==
    SetItem(MergeEnvCallerWins(IF env0.isNone THEN <<>> ELSE env0.d, os_environ),
            "LD_LIBRARY_PATH", LibDir(path))

\* C9: the environment of the spawned child is os.environ overridden by the
\* caller-given env (the caller's value wins for a variable present in both,
\* variables present in one only are passed through), with LD_LIBRARY_PATH
\* then set to <path>/build/lib.
C9_ChildEnvCallerOverrides ==
    lpc = "returned" => children[1].env = ClaimedChildEnv

\* C12: build_ns3 returns for every build command that terminates when its
\* output is discarded, however much it writes, and returns true exactly when
\* the exit code is zero: once the build step of a call with build=True has
\* been taken, the call is not stuck in proc.wait(), and it has raised the
\* build-failure error exactly when the exit code is not zero.
C12_BuildReturns ==
    (build /\ lpc # "build") =>
        /\ lpc # "build_blocked"
        /\ (lexc = "RuntimeError") <=> (buildExit # 0)

\* the build, if requested, succeeded and the compiled executable is present
CheckReachable ==
    /\ build => (~buildFillsPipe /\ buildExit = 0)
    /\ execDir.exists
    /\ Filter(execDir.files) # <<>>

\* C14: run_single_ns3 with profile_ns3=True when perf is not installed ends
\* the controlling process with exit(-1) and spawns no child, the command not
\* having been wrapped; with profile_ns3=False the controlling process is
\* never ended.
C14_PerfMissingExits ==
    /\ (profile_ns3 /\ ~perfInstalled /\ CheckReachable /\ LaunchEnded) =>
          /\ lpc = "exited"
          /\ exitStatus = ExitStatusOf(-1)
          /\ children = <<>>
          /\ ~Contains(cmd, PerfPath)
    /\ ~profile_ns3 => lpc # "exited"

\* C15: run_single_ns3 leaves the caller's env mapping as it was given: no
\* entry added, removed or overwritten.
C15_CallerEnvUnchanged == env = env0

----------------------------------------------------------------------------
(* Properties of run_bulk_ns3 *)

\* a probe of the machine as it is now would report enough idle cores
EnoughIdleNow == ~MustWait(get_free_cpu(DefaultPerc, load))

\* C1: if the machine comes to have at least RESERVE_CPU idle cores and keeps
\* them, then, the wait loop probing again on each poll, every job is
\* launched and run_bulk_ns3 returns.
C1_EventuallyReturns == (<>[]EnoughIdleNow) => <>(bpc = "done")

\* C2: a job's launch command is formatted and issued only on a snapshot that
\* holds at least RESERVE_CPU distinct cores, every one of them sampled below
\* 20 percent.
C2_LaunchOnlyWithReserve ==
    bpc \in {"format", "system"} =>
        /\ Cardinality({ cpus[i][1] : i \in 1..Len(cpus) }) >= RESERVE_CPU
        /\ \A i \in 1..Len(cpus) : cpus[i][2] < 20

\* the second job is about to be launched, the first one having had to wait
C2_Witness ==
    /\ bpc = "system"
    /\ Len(launched) >= 1
    /\ Len(cpus) >= RESERVE_CPU
    /\ \E i \in 1..Len(cpus) : cpus[i][2] > 0

RECURSIVE PerMap(_)
\* the pairs each map of the list l expands to on its own, map by map
PerMap(l) ==
    IF l = <<>> THEN <<>> ELSE <<get_settings(Head(l))[1]>> \o PerMap(Tail(l))

\* the pairs settings[i] expands to on its own
PairsOfMap(i) == PerMap(settings)[i]

RECURSIVE Offset(_, _)
\* the number of pairs of the maps before map i, pm holding the pairs per map
Offset(pm, i) == IF i = 1 THEN 0 ELSE Offset(pm, i - 1) + Len(pm[i - 1])

\* the sum of the per-map expansion counts
SumOfCounts == Offset(PerMap(settings), Len(settings) + 1)

\* C13: each element of settings is expanded on its own and the results are
\* concatenated: the launches made so far are, one per position, pair k of map
\* i at position Offset(i) + k (list order, then expansion order, nothing
\* twice, nothing skipped); the job in hand is the one after the launches
\* made; the command issued is that job's; and when run_bulk_ns3 returns the
\* number of launches is the sum of the per-map counts.
C13_SumInOrder ==
    \E pm \in {PerMap(settings)} : \E total \in {Offset(pm, Len(pm) + 1)} :
       /\ Len(launched) <= total
       /\ \A i \in 1..Len(pm) : \A k \in 1..Len(pm[i]) :
             Offset(pm, i) + k <= Len(launched) =>
                 launched[Offset(pm, i) + k] = pm[i][k]
       /\ bpc \in {"probe", "test", "sleep", "format", "system"} =>
             ji = Len(launched) + 1
       /\ bpc = "system" =>
             \E i \in 1..Len(pm) : \E k \in 1..Len(pm[i]) :
                 /\ Offset(pm, i) + k = Len(launched) + 1
                 /\ \E core \in Cores :
                       bcmd = BulkCmd(core, get_setting(commons), pm[i][k][1], pm[i][k][2])
       /\ bpc = "done" => Len(launched) = total

\* a list of two maps with 2 and 1 pairs: 3 launches (the product would be 2)
C13_Witness ==
    /\ bpc = "done"
    /\ Len(settings) = 2
    /\ Len(PairsOfMap(1)) = 2
    /\ Len(PairsOfMap(2)) = 1
    /\ Len(launched) = 3
    /\ SumOfCounts = 3

----------------------------------------------------------------------------
(* Properties of get_free_cpu *)

\* C16: get_free_cpu never returns a core whose sampled utilization is greater
\* than or equal to the threshold, returns every core sampled strictly below
\* it exactly once, each with the utilization it was sampled at, and the
\* result is sorted ascending by utilization.
C16_BelowThresholdSorted ==
    fpc = "returned" =>
        /\ \A i \in 1..Len(fret) :
              /\ fret[i][1] \in Cores
              /\ fret[i][2] = fsample[fret[i][1]]
              /\ ~(fret[i][2] >= fperc)
        /\ \A k \in Cores : fsample[k] < fperc =>
              Cardinality({ i \in 1..Len(fret) : fret[i][1] = k }) = 1
        /\ \A i \in 1..Len(fret) : \A j \in 1..Len(fret) :
              i < j => fret[i][2] <= fret[j][2]

\* a sample with a core exactly at the threshold and two cores below it that
\* the sort puts in the other order
C16_Witness ==
    /\ fpc = "returned"
    /\ \E k \in Cores : fsample[k] = fperc
    /\ Len(fret) >= 2
    /\ fret[1][2] < fret[Len(fret)][2]
    /\ fret[1][1] > fret[Len(fret)][1]

\* the cores the command names after "taskset -c "
PinnedCores == { k \in Cores : Digits(k) = <<bcmd[2]>> }

\* C20: the core a job is pinned to is the core with the lowest utilization
\* among the idle cores of the snapshot that passed the reservation test for
\* that job, the element at index 0 of the snapshot (the lowest-numbered one
\* among equally utilized cores), and the command names exactly one core.
C20_PinnedToLeastUtilized ==
    bpc = "system" =>
        /\ Len(cpus) >= RESERVE_CPU
        /\ cpus = get_free_cpu(DefaultPerc, load)
        /\ bcmd[1] = "taskset -c "
        /\ bcmd[3] = " nohup ./waf --run "
        /\ Cardinality(PinnedCores) = 1
        /\ \A k \in PinnedCores :
              /\ k = cpus[1][1]
              /\ \A i \in 1..Len(cpus) :
                    \/ load[k] < cpus[i][2]
                    \/ (load[k] = cpus[i][2] /\ k <= cpus[i][1])

\* core 0 is idle but busier than the others: the job is pinned to another core
C20_Witness ==
    /\ bpc = "system"
    /\ load[0] = 15
    /\ cpus[1][2] = 0
    /\ cpus[1][1] # 0
    /\ PinnedCores = {cpus[1][1]}
    /\ Len(launched) >= 1

====
